---- MODULE Spec2Model ----
(***************************************************************************)
(* get.py of get-maya-devkit: fetch the vendor page, extract the devkit    *)
(* archive links, derive version / update / platform from each link,      *)
(* filter, then print (dry run) or download and extract each candidate.   *)
(*                                                                         *)
(* Strings are sequences of lexemes.  A lexeme is a run of characters      *)
(* that no pattern of the program splits; every character a pattern tests  *)
(* on its own (the "." of a host name, the letters of a file extension)   *)
(* is a lexeme of one character.  Python's None is the one-lexeme sequence *)
(* None, whose lexeme occurs in no string.                                 *)
(***************************************************************************)
EXTENDS Integers, Sequences, FiniteSets, TLC

VARIABLES
    system,        \* platform.system() of the machine the tool runs on
    argv,          \* the command line: [maya, platform, dryrun]
    site,          \* the lines the vendor page serves (indices into PageLines)
    pc,            \* "start" (before parse), "main" (the loop of main), "exited"
    fetch,         \* outcome of urlopen in this run: "none", "ok", "non200", "raised"
    crash,         \* where an unhandled exception ended this run, or "none"
    exitcode,      \* exit status of the process, -1 while it runs
    url_list,      \* parse: the links parse_links returned
    found,         \* parse: the candidates (url, maya_ver, update_num)
    idx,           \* main: position of the for loop in found
    printed,       \* positions of found whose URL this run logged (dry run)
    downloaded,    \* positions of found this run called download for
    extracted,     \* positions of found this run called extract for
    skipped,       \* positions of found whose obtain found the directory present
    dirs,          \* directories under ROOT
    files,         \* archive files under ROOT (by base name)
    unpacked,      \* directories an archive was unpacked into
    unpackFailed,  \* directories whose unpacking raised, in this or an earlier run
    dirs0,         \* dirs when this run started
    files0,        \* files when this run started
    fn,            \* unit specification: the function under call
    arg,           \* unit specification: its argument
    ret            \* unit specification: its result

vars == <<system, argv, site, pc, fetch, crash, exitcode, url_list, found, idx,
          printed, downloaded, extracted, skipped, dirs, files, unpacked,
          unpackFailed, dirs0, files0, fn, arg, ret>>

runVars == <<system, argv, site, pc, fetch, crash, exitcode, url_list, found, idx,
             printed, downloaded, extracted, skipped, dirs, files, unpacked,
             unpackFailed, dirs0, files0>>

unitVars == <<fn, arg, ret>>

(***************************************************************************)
(* Bounds                                                                  *)
(***************************************************************************)
\* longest page (number of lines) the site serves
MaxLines == 2

(***************************************************************************)
(* Strings                                                                 *)
(***************************************************************************)
None == <<"<None>">>

NL == "\n"

\* the lexemes of one character
Char1 == {".", "-", "+", "/", "\"", ">", " ", "=", "*", "_",
          "a", "b", "d", "e", "g", "i", "m", "n", "p", "t", "x", "z",
          "0", "1", "2", "3", "4", "5", "6", "7", "8", "9"}

Max(S) == CHOOSE x \in S : \A y \in S : y <= x

Min(S) == CHOOSE x \in S : \A y \in S : x <= y

\* str.startswith
startswith(s, prefix) ==
    /\ Len(prefix) <= Len(s)
    /\ SubSeq(s, 1, Len(prefix)) = prefix

\* os.path.basename: what follows the last "/"
basename(url) ==
    LET slashes == {i \in 1..Len(url) : url[i] = "/"}
    IN  IF slashes = {} THEN url ELSE SubSeq(url, Max(slashes) + 1, Len(url))

\* str.replace(old, new) for a one-lexeme old and new
replace(s, old, new) == [i \in 1..Len(s) |-> IF s[i] = old THEN new ELSE s[i]]

\* str.lower, lexeme by lexeme
LowerLexeme(x) ==
    CASE x = "Windows" -> "windows"
      [] x = "WINDOWS" -> "windows"
      [] x = "Linux"   -> "linux"
      [] x = "Mac"     -> "mac"
      [] x = "macOS"   -> "macos"
      [] x = "MacOS"   -> "macos"
      [] OTHER         -> x

lower(s) == [i \in 1..Len(s) |-> LowerLexeme(s[i])]

\* the substrings of a lower-case lexeme that parse_platform looks for
Infixes(x) ==
    CASE x = "windows" -> {"windows"}
      [] x = "linux"   -> {"linux"}
      [] x = "macos"   -> {"macos", "mac"}
      [] x = "mac"     -> {"mac"}
      [] OTHER         -> {}

\* needle in s
contains(s, needle) == \E i \in 1..Len(s) : needle \in Infixes(s[i])

\* "%d" % n and str(n)
IntStr(n) ==
    CASE n = 0 -> "0" [] n = 1 -> "1" [] n = 2 -> "2" [] n = 3 -> "3"
      [] n = 4 -> "4" [] n = 5 -> "5" [] n = 6 -> "6" [] n = 7 -> "7"
      [] n = 8 -> "8" [] n = 9 -> "9"

\* int(s): [raised, num]
int(s) ==
    LET digits == {n \in 0..9 : s = <<IntStr(n)>>}
    IN  IF digits # {} THEN [raised |-> FALSE, num |-> CHOOSE n \in digits : TRUE]
        ELSE IF s = <<"-", "1">> THEN [raised |-> FALSE, num |-> -1]
        ELSE [raised |-> TRUE, num |-> 0]

\* str.split(".")
RECURSIVE split(_)
split(s) ==
    LET dots == {i \in 1..Len(s) : s[i] = "."}
    IN  IF dots = {} THEN <<s>>
        ELSE <<SubSeq(s, 1, Min(dots) - 1)>> \o split(SubSeq(s, Min(dots) + 1, Len(s)))

(***************************************************************************)
(* re.match: a pattern is a sequence of items [k, v]                       *)
(*   "set"   one lexeme of v (a literal is a one-element v)                *)
(*   "star"  .*      any run without a newline, longest first              *)
(*   "rep"   x*      any run of the lexeme x, longest first                *)
(*   "open", "close" the parentheses of group 1                            *)
(* The result is [ok, gs, ge]: group 1 is the lexemes gs .. ge-1.          *)
(***************************************************************************)
Lit(x) == [k |-> "set", v |-> {x}]

OneOf(S) == [k |-> "set", v |-> S]

Star == [k |-> "star", v |-> {}]

Rep(x) == [k |-> "rep", v |-> {x}]

Open == [k |-> "open", v |-> {}]

Close == [k |-> "close", v |-> {}]

NoMatch == [ok |-> FALSE, gs |-> 0, ge |-> 0]

\* first position at or after j that a run of lexemes of S cannot pass
RunEnd(s, j, S) ==
    Min({k \in j..(Len(s) + 1) : k = Len(s) + 1 \/ s[k] \notin S})

RECURSIVE MatchAt(_, _, _, _)
MatchAt(p, s, i, j) ==
    IF i > Len(p) THEN [ok |-> TRUE, gs |-> 0, ge |-> 0]
    ELSE LET it == p[i]
             \* the rest of the pattern tried after every run j .. k-1, longest run first
             Longest(limit) ==
                 LET tries == {<<k, MatchAt(p, s, i + 1, k)>> : k \in j..limit}
                     good == {t \in tries : t[2].ok}
                 IN  IF good = {} THEN NoMatch
                     ELSE (CHOOSE t \in good : \A o \in good : o[1] <= t[1])[2]
         IN  CASE it.k = "set" ->
                      IF j <= Len(s) /\ s[j] \in it.v
                      THEN MatchAt(p, s, i + 1, j + 1) ELSE NoMatch
               [] it.k = "star" -> Longest(RunEnd(s, j, {s[k] : k \in 1..Len(s)} \ {NL}))
               [] it.k = "rep" -> Longest(RunEnd(s, j, it.v))
               [] it.k = "open" ->
                      LET r == MatchAt(p, s, i + 1, j)
                      IN  IF r.ok THEN [r EXCEPT !.gs = j] ELSE r
               [] it.k = "close" ->
                      LET r == MatchAt(p, s, i + 1, j)
                      IN  IF r.ok THEN [r EXCEPT !.ge = j] ELSE r

match(p, s) == MatchAt(p, s, 1, 1)

group1(m, s) == SubSeq(s, m.gs, m.ge - 1)

(***************************************************************************)
(* The parsers of get.py                                                   *)
(***************************************************************************)
\* the character class [.dmg zip tgz] that ends the pattern of parse_links
ArchiveClass == {".", "d", "m", "g", " ", "z", "i", "p", "t"}

LinkPattern ==
    <<Star, Lit("<a href="), Lit("\""),
      Open, Lit("https://"), Star,
      Lit("."), Lit("amazonaws"), OneOf(Char1), Lit("com"), Lit("/"), Star,
      Lit("/"), Lit("Maya"), Lit("/"), Lit("devkit"), Rep("t"), Star,
      Lit("/"), Star, Lit("Maya"), Star, OneOf(ArchiveClass), Close,
      Lit("\""), Star, Lit(">"), Star>>

RECURSIVE parse_links(_)
parse_links(lines) ==
    IF lines = <<>> THEN <<>>
    ELSE LET matched == match(LinkPattern, Head(lines))
         IN  (IF matched.ok THEN <<group1(matched, Head(lines))>> ELSE <<>>)
             \o parse_links(Tail(lines))

\* the lexemes 20[12][0-9] matches
Years == {"2010", "2011", "2012", "2013", "2014", "2015", "2016", "2017", "2018",
          "2019", "2020", "2021", "2022", "2023", "2024", "2025", "2026", "2027",
          "2028", "2029"}

VersionPattern ==
    <<Star, Lit("/"), Lit("devkit"), Lit("+"), Open, OneOf(Years), Close,
      Lit("/"), Star>>

\* [raised, ver]: p.match(url) is None when the pattern fails, and .group raises
parse_maya_version(url) ==
    LET u == replace(url, "%20", "+")
        m == match(VersionPattern, u)
    IN  IF m.ok THEN [raised |-> FALSE, ver |-> group1(m, u)]
        ELSE [raised |-> TRUE, ver |-> None]

\* the table of irregular names, in the order the dictionary lists them
chaotic(maya_ver) ==
    CASE maya_ver = <<"2016">> ->
             << <<<<"Maya", "2016", "_DEVKIT">>, 0>>,
                <<<<"Maya", "2016", ".", "1", "_DEVKIT">>, 1>>,
                <<<<"Maya", "2016", "ext2", "_DEVKIT">>, 2>> >>
      [] maya_ver = <<"2017">> ->
             << <<<<"Maya", "2017", "_DEVKIT">>, 0>>,
                <<<<"Maya", "2017", "u3", "_DEVKIT">>, 3>>,
                <<<<"Maya", "2017", "u4", "_DEVKIT">>, 4>> >>
      [] maya_ver = <<"2018">> ->
             << <<<<"Maya", "2018", "-", "DEVKIT">>, 0>>,
                <<<<"Maya", "2018", "_DEVKIT">>, 0>>,
                <<<<"Maya", "2018", "u3", "_DEVKIT">>, 3>>,
                <<<<"Maya", "2018", "u4", "_DEVKIT">>, 4>> >>
      [] OTHER -> <<>>

\* "Autodesk_Maya_%s_DEVKIT" % maya_ver
GenericPrefix(maya_ver) == <<"Autodesk_", "Maya", "_">> \o maya_ver \o <<"_DEVKIT">>

\* "Autodesk_Maya_%s_%d_Update_DEVKIT" % (maya_ver, i)
UpdatePrefix(maya_ver, i) ==
    <<"Autodesk_", "Maya", "_">> \o maya_ver \o <<"_", IntStr(i), "_Update_DEVKIT">>

\* range(1, 10)
UpdateRange == 1..9

\* parse_update_version with range(1, 9): the last update number is never tried
parse_update_version_ShortRange(url, maya_ver) ==
    LET base_name == basename(url)
        table == chaotic(maya_ver)
        hits == {k \in 1..Len(table) : startswith(base_name, table[k][1])}
        updates == {i \in 1..8 : startswith(base_name, UpdatePrefix(maya_ver, i))}
    IN  IF hits # {} THEN [raised |-> FALSE, num |-> table[Min(hits)][2]]
        ELSE IF startswith(base_name, GenericPrefix(maya_ver))
             THEN [raised |-> FALSE, num |-> 0]
        ELSE IF updates # {} THEN [raised |-> FALSE, num |-> Min(updates)]
        ELSE [raised |-> TRUE, num |-> 0]

\* [raised, num]
parse_update_version(url, maya_ver) ==
    LET base_name == basename(url)
        table == chaotic(maya_ver)
        hits == {k \in 1..Len(table) : startswith(base_name, table[k][1])}
        updates == {i \in UpdateRange : startswith(base_name, UpdatePrefix(maya_ver, i))}
    IN  IF hits # {} THEN [raised |-> FALSE, num |-> table[Min(hits)][2]]
        ELSE IF startswith(base_name, GenericPrefix(maya_ver))
             THEN [raised |-> FALSE, num |-> 0]
        ELSE IF updates # {} THEN [raised |-> FALSE, num |-> Min(updates)]
        ELSE [raised |-> TRUE, num |-> 0]

parse_platform(url) ==
    LET base_name == lower(basename(url))
    IN  IF contains(base_name, "windows") THEN <<"Windows">>
        ELSE IF contains(base_name, "linux") THEN <<"Linux">>
        ELSE IF contains(base_name, "macos") \/ contains(base_name, "mac") THEN <<"Mac">>
        ELSE None

(***************************************************************************)
(* The lines of the vendor page                                            *)
(***************************************************************************)
StorageHost == <<"autodesk-adn-transfer", ".", "s3-us-west-2", ".", "amazonaws", ".", "com">>

OtherHost == <<"example", ".", "com">>

\* the product folder, its blank written "+" or "%20"
ProductDir(blank, year) == <<"/", "ADN", "/", "Maya", "/", "devkit", blank, year, "/">>

OtherDir == <<"/", "ADN", "/", "Max", "/", "sdk", "/">>

\* the storage domain as a folder of another host
MirrorDir == <<"/", "mirror", ".", "amazonaws", ".", "com">> \o ProductDir("+", "2020")

Zip == <<".", "z", "i", "p">>

Dmg == <<".", "d", "m", "g">>

Tgz == <<".", "t", "g", "z">>

Png == <<".", "p", "n", "g">>

Exe == <<".", "e", "x", "e">>

NoAttrs == <<>>

TargetAttr == <<" ", "target=", "\"", "_blank", "\"">>

ClassAttr == <<" ", "class=", "\"", "b", "i", "g", "\"">>

\* one line of HTML holding one anchor
Anchor(url, attrs) ==
    <<"<a href=", "\"">> \o url \o <<"\"">> \o attrs \o <<">", "download", "</a>", NL>>

StorageUrl(dir, name) == <<"https://">> \o StorageHost \o dir \o name

PageLines ==
    << Anchor(StorageUrl(ProductDir("+", "2020"),
                  <<"Autodesk_", "Maya", "_", "2020", "_DEVKIT", "_", "Windows">> \o Zip),
              TargetAttr),
       Anchor(StorageUrl(ProductDir("+", "2020"),
                  <<"Autodesk_", "Maya", "_", "2020", "_DEVKIT", "_", "Linux">> \o Tgz),
              TargetAttr),
       Anchor(StorageUrl(ProductDir("+", "2020"),
                  <<"Autodesk_", "Maya", "_", "2020", "_", "1", "_Update_DEVKIT",
                    "_", "Mac">> \o Dmg),
              TargetAttr),
       Anchor(StorageUrl(ProductDir("%20", "2018"),
                  <<"Maya", "2018", "u3", "_DEVKIT", "_", "Windows">> \o Zip),
              NoAttrs),
       Anchor(StorageUrl(ProductDir("+", "2019"),
                  <<"Maya", "2019", "_DEVKIT", "_", "Windows">> \o Zip),
              NoAttrs) >>

\* the sequences of at most n different elements of S
RECURSIVE SeqsUpTo(_, _)
SeqsUpTo(S, n) ==
    IF n = 0 THEN {<<>>}
    ELSE LET shorter == SeqsUpTo(S, n - 1)
         IN  shorter \cup {Append(q, x) : q \in shorter, x \in S}

\* the pages: every link is listed once
Pages ==
    {page \in SeqsUpTo(1..Len(PageLines), MaxLines) :
        \A i, j \in 1..Len(page) : page[i] = page[j] => i = j}

\* response.readlines()
readlines(page) == [i \in 1..Len(page) |-> PageLines[page[i]]]

\* parse_links(response.readlines()) of every page, computed once
LinkTable == {<<page, parse_links(readlines(page))>> : page \in Pages}

LinksOf(page) == (CHOOSE t \in LinkTable : t[1] = page)[2]

\* what platform.system() returns
Systems == {<<"Windows">>, <<"Linux">>, <<"Darwin">>, <<"Java">>}

MayaArgs ==
    {None, <<>>, <<"2020">>, <<"2020", ".", "*">>, <<"2020", ".", "1">>, <<"2018">>,
     <<"2020", ".", "-", "1">>, <<"2020", ".", "x">>}

PlatformArgs == {None, <<>>, <<"Windows">>, <<"Mac">>}

Commands == [maya : MayaArgs, platform : PlatformArgs, dryrun : BOOLEAN]

(***************************************************************************)
(* The command line (argparse)                                             *)
(***************************************************************************)
\* --maya has no default: None when the flag is omitted
maya == argv.maya

\* --platform defaults to platform.system()
platform_ == IF argv.platform = None THEN system ELSE argv.platform

dryrun == argv.dryrun

(***************************************************************************)
(* parse                                                                   *)
(***************************************************************************)
\* SplitVersion with an absent update part read as the wildcard
SplitVersion_DefaultAll(m) ==
    IF m = None THEN [raised |-> TRUE, maya |-> <<>>, update |-> 0]
    ELSE LET parts == split(m) \o << <<>> >>
             n == int(parts[2])
         IN  IF parts[2] = <<"*">> \/ parts[2] = <<>>
             THEN [raised |-> FALSE, maya |-> parts[1], update |-> -1]
             ELSE [raised |-> n.raised, maya |-> parts[1], update |-> n.num]

\* the first two statements of parse: [raised, maya, update]
SplitVersion(m) ==
    IF m = None THEN [raised |-> TRUE, maya |-> <<>>, update |-> 0]
    ELSE LET parts == split(m) \o << <<>> >>
             n == int(parts[2])
         IN  IF parts[2] = <<"*">> THEN [raised |-> FALSE, maya |-> parts[1], update |-> -1]
             ELSE IF parts[2] = <<>> THEN [raised |-> FALSE, maya |-> parts[1], update |-> 0]
             ELSE [raised |-> n.raised, maya |-> parts[1], update |-> n.num]

VersionTest(m, maya_ver) == ~(m # <<>> /\ m # maya_ver)

UpdateTest(update, update_num) == ~(update >= 0 /\ update # update_num)

PlatformTest(p, r) == ~(p # <<>> /\ p # parse_platform(r))

\* the for loop of parse with the version test made before the update number is parsed
RECURSIVE Candidates_FilterFirst(_, _, _, _)
Candidates_FilterFirst(urls, m, update, p) ==
    IF urls = <<>> THEN [raised |-> FALSE, found |-> <<>>]
    ELSE LET r == Head(urls)
             v == parse_maya_version(r)
             u == parse_update_version(r, v.ver)
             rest == Candidates_FilterFirst(Tail(urls), m, update, p)
         IN  IF v.raised THEN [raised |-> TRUE, found |-> <<>>]
             ELSE IF ~VersionTest(m, v.ver) THEN rest
             ELSE IF u.raised \/ rest.raised THEN [raised |-> TRUE, found |-> <<>>]
             ELSE IF UpdateTest(update, u.num) /\ PlatformTest(p, r)
             THEN [raised |-> FALSE, found |-> <<<<r, v.ver, u.num>>>> \o rest.found]
             ELSE rest

\* the for loop of parse: [raised, found]
RECURSIVE Candidates(_, _, _, _)
Candidates(urls, m, update, p) ==
    IF urls = <<>> THEN [raised |-> FALSE, found |-> <<>>]
    ELSE LET r == Head(urls)
             v == parse_maya_version(r)
             u == parse_update_version(r, v.ver)
             rest == Candidates(Tail(urls), m, update, p)
         IN  IF v.raised \/ u.raised \/ rest.raised
             THEN [raised |-> TRUE, found |-> <<>>]
             ELSE IF VersionTest(m, v.ver) /\ UpdateTest(update, u.num) /\ PlatformTest(p, r)
             THEN [raised |-> FALSE, found |-> <<<<r, v.ver, u.num>>>> \o rest.found]
             ELSE rest

(***************************************************************************)
(* The run of the program                                                  *)
(***************************************************************************)
Init ==
    /\ system \in Systems
    /\ argv \in Commands
    /\ site \in Pages
    /\ pc = "start"
    /\ fetch = "none"
    /\ crash = "none"
    /\ exitcode = -1
    /\ url_list = <<>>
    /\ found = <<>>
    /\ idx = 1
    /\ printed = <<>>
    /\ downloaded = <<>>
    /\ extracted = <<>>
    /\ skipped = <<>>
    /\ dirs = {}
    /\ files = {}
    /\ unpacked = {}
    /\ unpackFailed = {}
    /\ dirs0 = {}
    /\ files0 = {}
    /\ fn = "none"
    /\ arg = <<>>
    /\ ret = <<>>

\* sys.exit(code), or the interpreter ending on an unhandled exception (status 1)
Exit(code, where) ==
    /\ pc' = "exited"
    /\ exitcode' = code
    /\ crash' = where

fsVars == <<dirs, files, unpacked, unpackFailed, dirs0, files0>>

logVars == <<printed, downloaded, extracted, skipped>>

envVars == <<system, argv, site>>

\* os.path.join(ROOT, "%s.%s" % (maya_ver, update_num))
Dest(maya_ver, update_num) == maya_ver \o <<".", IntStr(update_num)>>

\* os.path.isfile in place of os.path.isdir
isdir_File(dest) == dest \in files

isdir(dest) == dest \in dirs

\* the systems extract has an unpacker for
Unpackers == {<<"Windows">>, <<"Linux">>, <<"Darwin">>}

\* extract that makes the directory only once the archive is unpacked
extract_MkdirLast(dest, ok) ==
    LET made == IF ~isdir(dest) THEN dirs \cup {dest} ELSE dirs
    IN  IF system \in Unpackers /\ ok
        THEN [dirs |-> made, unpacked |-> unpacked \cup {dest}]
        ELSE IF system \in Unpackers THEN [dirs |-> dirs, unpacked |-> unpacked]
        ELSE [dirs |-> made, unpacked |-> unpacked]

\* extract(file_path, dest) when the unpacker succeeds (ok) or raises:
\* the directories and the unpacked directories afterwards
extract(dest, ok) ==
    LET made == IF ~isdir(dest) THEN dirs \cup {dest} ELSE dirs
    IN  IF system \in Unpackers /\ ok
        THEN [dirs |-> made, unpacked |-> unpacked \cup {dest}]
        ELSE [dirs |-> made, unpacked |-> unpacked]

\* maya.split on None, or int() of a text that is no number
ParseBadVersion ==
    /\ pc = "start"
    /\ SplitVersion(maya).raised
    /\ Exit(1, "args")
    /\ UNCHANGED <<envVars, fetch, url_list, found, idx, logVars, fsVars, unitVars>>

\* urlopen raises: except Exception logs it and exits
FetchRaises ==
    /\ pc = "start"
    /\ ~SplitVersion(maya).raised
    /\ fetch' = "raised"
    /\ Exit(1, "none")
    /\ UNCHANGED <<envVars, url_list, found, idx, logVars, fsVars, unitVars>>

\* response.code is not 200
FetchNot200 ==
    /\ pc = "start"
    /\ ~SplitVersion(maya).raised
    /\ fetch' = "non200"
    /\ Exit(1, "none")
    /\ UNCHANGED <<envVars, url_list, found, idx, logVars, fsVars, unitVars>>

\* the page arrives and every link parses: parse returns found to main
ParseReturns ==
    /\ pc = "start"
    /\ ~SplitVersion(maya).raised
    /\ LET a == SplitVersion(maya)
           urls == LinksOf(site)
           c == Candidates(urls, a.maya, a.update, platform_)
       IN  /\ ~c.raised
           /\ url_list' = urls
           /\ found' = c.found
    /\ fetch' = "ok"
    /\ pc' = "main"
    /\ UNCHANGED <<envVars, crash, exitcode, idx, logVars, fsVars, unitVars>>

\* the page arrives and a link does not parse: the exception leaves parse and main
ParseRaises ==
    /\ pc = "start"
    /\ ~SplitVersion(maya).raised
    /\ LET a == SplitVersion(maya)
           urls == LinksOf(site)
           c == Candidates(urls, a.maya, a.update, platform_)
       IN  /\ c.raised
           /\ url_list' = urls
    /\ fetch' = "ok"
    /\ Exit(1, "parse")
    /\ UNCHANGED <<envVars, found, idx, logVars, fsVars, unitVars>>

\* main without the sys.exit(1) of its else branch
MainNoLink_NoExit ==
    /\ pc = "main"
    /\ found = <<>>
    /\ Exit(0, "none")
    /\ UNCHANGED <<envVars, fetch, url_list, found, idx, logVars, fsVars, unitVars>>

\* main, found is empty
MainNoLink ==
    /\ pc = "main"
    /\ found = <<>>
    /\ Exit(1, "none")
    /\ UNCHANGED <<envVars, fetch, url_list, found, idx, logVars, fsVars, unitVars>>

\* main with obtain outside the else: the dry run prints and downloads
MainPrint_NoElse ==
    /\ pc = "main"
    /\ idx <= Len(found)
    /\ dryrun
    /\ printed' = Append(printed, found[idx][1])
    /\ downloaded' = Append(downloaded, found[idx][1])
    /\ files' = files \cup {basename(found[idx][1])}
    /\ idx' = idx + 1
    /\ UNCHANGED <<envVars, pc, fetch, crash, exitcode, url_list, found,
                   extracted, skipped, dirs, unpacked, unpackFailed, dirs0, files0,
                   unitVars>>

\* main, dry run: _log(data[0])
MainPrint ==
    /\ pc = "main"
    /\ idx <= Len(found)
    /\ dryrun
    /\ printed' = Append(printed, found[idx][1])
    /\ idx' = idx + 1
    /\ UNCHANGED <<envVars, pc, fetch, crash, exitcode, url_list, found,
                   downloaded, extracted, skipped, fsVars, unitVars>>

\* obtain: the directory is there
ObtainSkips ==
    /\ pc = "main"
    /\ idx <= Len(found)
    /\ ~dryrun
    /\ isdir(Dest(found[idx][2], found[idx][3]))
    /\ skipped' = Append(skipped, Dest(found[idx][2], found[idx][3]))
    /\ idx' = idx + 1
    /\ UNCHANGED <<envVars, pc, fetch, crash, exitcode, url_list, found,
                   printed, downloaded, extracted, fsVars, unitVars>>

\* obtain: urlretrieve raises; what it wrote of the file may stay
ObtainDownloadRaises ==
    /\ pc = "main"
    /\ idx <= Len(found)
    /\ ~dryrun
    /\ ~isdir(Dest(found[idx][2], found[idx][3]))
    /\ downloaded' = Append(downloaded, found[idx][1])
    /\ files' \in {files, files \cup {basename(found[idx][1])}}
    /\ Exit(1, "download")
    /\ UNCHANGED <<envVars, fetch, url_list, found, idx, printed, extracted, skipped,
                   dirs, unpacked, unpackFailed, dirs0, files0, unitVars>>

\* obtain: the archive is downloaded and the unpacker raises
ObtainExtractRaises ==
    /\ pc = "main"
    /\ idx <= Len(found)
    /\ ~dryrun
    /\ system \in Unpackers
    /\ LET dest == Dest(found[idx][2], found[idx][3])
           after == extract(dest, FALSE)
       IN  /\ ~isdir(dest)
           /\ downloaded' = Append(downloaded, found[idx][1])
           /\ files' = files \cup {basename(found[idx][1])}
           /\ extracted' = Append(extracted, dest)
           /\ dirs' = after.dirs
           /\ unpacked' = after.unpacked
           /\ unpackFailed' = unpackFailed \cup {dest}
    /\ Exit(1, "extract")
    /\ UNCHANGED <<envVars, fetch, url_list, found, idx, printed, skipped,
                   dirs0, files0, unitVars>>

\* obtain: the archive is downloaded and extract returns
ObtainExtracts ==
    /\ pc = "main"
    /\ idx <= Len(found)
    /\ ~dryrun
    /\ LET dest == Dest(found[idx][2], found[idx][3])
           after == extract(dest, TRUE)
       IN  /\ ~isdir(dest)
           /\ downloaded' = Append(downloaded, found[idx][1])
           /\ files' = files \cup {basename(found[idx][1])}
           /\ extracted' = Append(extracted, dest)
           /\ dirs' = after.dirs
           /\ unpacked' = after.unpacked
    /\ idx' = idx + 1
    /\ UNCHANGED <<envVars, pc, fetch, crash, exitcode, url_list, found, printed,
                   skipped, unpackFailed, dirs0, files0, unitVars>>

\* main, the loop is over: the interpreter ends with status 0
MainReturns ==
    /\ pc = "main"
    /\ found # <<>>
    /\ idx > Len(found)
    /\ Exit(0, "none")
    /\ UNCHANGED <<envVars, fetch, url_list, found, idx, logVars, fsVars, unitVars>>

\* the same command is run again, with or without --dryrun, on what the
\* earlier runs left under ROOT
Rerun ==
    /\ pc = "exited"
    /\ \E d \in BOOLEAN : argv' = [argv EXCEPT !.dryrun = d]
    /\ pc' = "start"
    /\ fetch' = "none"
    /\ crash' = "none"
    /\ exitcode' = -1
    /\ url_list' = <<>>
    /\ found' = <<>>
    /\ idx' = 1
    /\ printed' = <<>>
    /\ downloaded' = <<>>
    /\ extracted' = <<>>
    /\ skipped' = <<>>
    /\ dirs0' = dirs
    /\ files0' = files
    /\ UNCHANGED <<system, site, dirs, files, unpacked, unpackFailed, unitVars>>

Next ==
    \/ ParseBadVersion
    \/ FetchRaises
    \/ FetchNot200
    \/ ParseReturns
    \/ ParseRaises
    \/ MainNoLink
    \/ MainPrint
    \/ ObtainSkips
    \/ ObtainDownloadRaises
    \/ ObtainExtractRaises
    \/ ObtainExtracts
    \/ MainReturns
    \/ Rerun

Spec == Init /\ [][Next]_vars

(***************************************************************************)
(* The parsers called on their own                                         *)
(***************************************************************************)
LinkCases ==
    [scheme : {"https://", "http://"},
     host : {StorageHost, OtherHost},
     dir : {ProductDir("+", "2020"), ProductDir("%20", "2018"), OtherDir, MirrorDir},
     name : {<<"Autodesk_", "Maya", "_", "2020", "_DEVKIT", "_", "Windows">>,
             <<"Maya", "2018", "u3", "_DEVKIT", "_", "Linux">>,
             <<"readme">>},
     ext : {Zip, Dmg, Tgz, Png, Exe},
     attrs : {NoAttrs, TargetAttr, ClassAttr}]

UrlOf(c) == <<c.scheme>> \o c.host \o c.dir \o c.name \o c.ext

LineOf(c) == Anchor(UrlOf(c), c.attrs)

TableVersions == {"2016", "2017", "2018"}

TablePrefixes ==
    UNION {{chaotic(<<v>>)[k][1] : k \in 1..Len(chaotic(<<v>>))} : v \in TableVersions}

UpdateNames ==
    {q \o <<"_", "Windows">> \o Zip : q \in TablePrefixes}
    \cup {GenericPrefix(<<v>>) \o <<"_", "Linux">> \o Tgz : v \in {"2018", "2020"}}
    \cup {UpdatePrefix(<<"2020">>, i) \o <<"_", "Mac">> \o Dmg : i \in {1, 2, 9}}
    \cup {UpdatePrefix(<<"2018">>, 4) \o <<"_", "Windows">> \o Zip,
          <<"Autodesk_", "Maya", "_", "2020", "_", "0", "_Update_DEVKIT">> \o Zip,
          <<"Autodesk_", "Maya", "_", "2020", "_", "10", "_Update_DEVKIT">> \o Zip,
          <<"Maya", "2019", "_DEVKIT", "_", "Windows">> \o Zip,
          <<"Maya", "2018", "u5", "_DEVKIT">> \o Zip}

UpdateCases == [name : UpdateNames, ver : {"2016", "2017", "2018", "2019", "2020"}]

UpdateUrl(c) == StorageUrl(ProductDir("+", c.ver), c.name)

InitFn ==
    /\ \/ fn = "parse_links" /\ arg \in LinkCases
       \/ fn = "parse_update_version" /\ arg \in UpdateCases
    /\ ret = <<>>
    /\ pc = "call"
    /\ system = <<"Linux">>
    /\ argv = [maya |-> None, platform |-> None, dryrun |-> TRUE]
    /\ site = <<>>
    /\ fetch = "none"
    /\ crash = "none"
    /\ exitcode = -1
    /\ url_list = <<>>
    /\ found = <<>>
    /\ idx = 1
    /\ printed = <<>>
    /\ downloaded = <<>>
    /\ extracted = <<>>
    /\ skipped = <<>>
    /\ dirs = {}
    /\ files = {}
    /\ unpacked = {}
    /\ unpackFailed = {}
    /\ dirs0 = {}
    /\ files0 = {}

CallParseLinks ==
    /\ pc = "call"
    /\ fn = "parse_links"
    /\ ret' = parse_links(<<LineOf(arg)>>)
    /\ pc' = "returned"
    /\ UNCHANGED <<system, argv, site, fetch, crash, exitcode, url_list, found, idx,
                   logVars, fsVars, fn, arg>>

CallParseUpdateVersion ==
    /\ pc = "call"
    /\ fn = "parse_update_version"
    /\ ret' = parse_update_version(UpdateUrl(arg), <<arg.ver>>)
    /\ pc' = "returned"
    /\ UNCHANGED <<system, argv, site, fetch, crash, exitcode, url_list, found, idx,
                   logVars, fsVars, fn, arg>>

NextFn ==
    \/ CallParseLinks
    \/ CallParseUpdateVersion

SpecFn == InitFn /\ [][NextFn]_vars

(***************************************************************************)
(* Properties                                                              *)
(***************************************************************************)
\* parse returned its list to main in this run
ParseReturned == pc \in {"main", "exited"} /\ fetch = "ok" /\ crash # "parse"

Range(q) == {q[i] : i \in 1..Len(q)}

\* the links of the pages
PageLinks == UNION {Range(t[2]) : t \in LinkTable}

\* maya_ver and update_num of every link of the pages, computed once
MetaTable ==
    {[url |-> r,
      ver |-> parse_maya_version(r),
      upd |-> parse_update_version(r, parse_maya_version(r).ver)] : r \in PageLinks}

MetaOf(r) == CHOOSE t \in MetaTable : t.url = r

UrlsOf(cands) == [i \in 1..Len(cands) |-> cands[i][1]]

DestsOf(cands) == [i \in 1..Len(cands) |-> Dest(cands[i][2], cands[i][3])]

\* C1: a run ends with status 1 when the fetch answers with a status other than
\* 200, when the fetch raises, or when no candidate matches; it ends with status 0
\* when a candidate matches and the run completes, the dry run having printed every
\* URL and the normal run having gone through every candidate.
C1_ExitStatus ==
    pc = "exited" =>
        /\ fetch = "non200" => exitcode = 1
        /\ fetch = "raised" => exitcode = 1
        /\ (fetch = "ok" /\ found = <<>>) => exitcode = 1
        /\ (found # <<>> /\ crash = "none") =>
               /\ exitcode = 0
               /\ idx = Len(found) + 1
               /\ dryrun => printed = UrlsOf(found)
               /\ ~dryrun => Len(downloaded) + Len(skipped) = Len(found)
        /\ exitcode = 0 => (found # <<>> /\ crash = "none")

\* a normal run that obtained two candidates and ended with status 0
C1_Witness ==
    /\ pc = "exited"
    /\ exitcode = 0
    /\ ~dryrun
    /\ Len(downloaded) = 2

\* the version specifier has one of the forms <major>, <major>.<n>, <major>.*
DocumentedVersion(m) ==
    /\ m # None
    /\ Len(m) \in {1, 3}
    /\ m[1] \in Years
    /\ Len(m) = 3 => (m[2] = "." /\ m[3] \in {"*"} \cup {IntStr(n) : n \in 0..9})

\* the update numbers the update part of a documented specifier accepts
AcceptedUpdates(m) ==
    IF Len(m) = 1 THEN {0}
    ELSE IF m[3] = "*" THEN Nat
    ELSE {n \in 0..9 : IntStr(n) = m[3]}

\* every link with its parsed major version and update number
AllCandidates(urls) ==
    [i \in 1..Len(urls) |-> <<urls[i], MetaOf(urls[i]).ver.ver, MetaOf(urls[i]).upd.num>>]

\* C2: with no platform specifier, parse returns exactly the candidates whose major
\* version is the major part of the specifier and whose update number the update
\* part accepts: "*" accepts every number, an absent update part only 0.
C2_VersionFilter ==
    (ParseReturned /\ argv.platform = <<>> /\ DocumentedVersion(maya)) =>
        LET Accepts(c) == c[2] = <<maya[1]>> /\ c[3] \in AcceptedUpdates(maya)
        IN  found = SelectSeq(AllCandidates(url_list), Accepts)

\* "2020" on a page with the first release and update 1 of 2020: only the first
\* release is returned
C2_Witness ==
    /\ ParseReturned
    /\ argv.platform = <<>>
    /\ maya = <<"2020">>
    /\ Len(url_list) = 2
    /\ \A i \in 1..2 : MetaOf(url_list[i]).ver.ver = <<"2020">>
    /\ Len(found) = 1
    /\ found[1][3] = 0

\* the file name of r names the platform of the machine the tool runs on
NamesHostPlatform(r) ==
    LET base_name == lower(basename(r))
    IN  \/ system = <<"Windows">> /\ contains(base_name, "windows")
        \/ system = <<"Linux">> /\ contains(base_name, "linux")
        \/ system = <<"Darwin">> /\ contains(base_name, "mac")

\* C3: with the platform flag omitted, on Windows, Linux and macOS every link whose
\* file name names the platform of the host passes the platform test of the filter.
C3_DefaultPlatformAcceptsHost ==
    (ParseReturned /\ argv.platform = None /\ system \in Unpackers) =>
        \A i \in 1..Len(url_list) :
            NamesHostPlatform(url_list[i]) => PlatformTest(platform_, url_list[i])

\* C4: a dry run prints the URL of every matched candidate in list order and
\* downloads nothing, extracts nothing and leaves the files and directories under
\* ROOT as they were when it started.
C4_DryRun ==
    (dryrun /\ pc \in {"main", "exited"}) =>
        /\ dirs = dirs0
        /\ files = files0
        /\ downloaded = <<>>
        /\ extracted = <<>>
        /\ pc = "main" => printed = SubSeq(UrlsOf(found), 1, idx - 1)
        /\ (pc = "exited" /\ found # <<>>) => printed = UrlsOf(found)

\* a dry run that printed two URLs beside what an earlier run left under ROOT
C4_Witness ==
    /\ dryrun
    /\ pc = "exited"
    /\ Len(printed) = 2
    /\ dirs # {}
    /\ files # {}

\* C5: an obtain that finds its directory present downloads nothing, extracts
\* nothing and leaves the files and directories as they are.
C5_IdempotentObtain ==
    [][ (/\ pc = "main"
         /\ ~dryrun
         /\ idx <= Len(found)
         /\ Dest(found[idx][2], found[idx][3]) \in dirs)
        => (/\ dirs' = dirs
            /\ files' = files
            /\ unpacked' = unpacked
            /\ downloaded' = downloaded
            /\ extracted' = extracted) ]_vars

\* an obtain found the directory that an earlier obtain of this run had made
C5_Witness ==
    /\ ~dryrun
    /\ skipped # <<>>
    /\ Range(skipped) \cap Range(extracted) # {}

\* C8: in a normal run that starts with none of its directories present, every
\* matched candidate is downloaded and extracted once, in list order, when nothing
\* fails; when a download or an extraction fails, the candidates up to the failing
\* one are the ones downloaded and none after it is.
C8_EveryCandidateObtained ==
    (/\ pc = "exited"
     /\ ParseReturned
     /\ ~dryrun
     /\ found # <<>>
     /\ Range(DestsOf(found)) \cap dirs0 = {})
    =>  IF crash = "none"
        THEN downloaded = UrlsOf(found) /\ extracted = DestsOf(found)
        ELSE downloaded = SubSeq(UrlsOf(found), 1, idx)

\* C9: the directory of a failed extraction stays, with nothing unpacked in it, and
\* no later obtain of that version and update downloads or extracts.
C9_FailedExtractionNotRetried ==
    /\ [](\A d \in unpackFailed : d \in dirs /\ d \notin unpacked)
    /\ [][ (/\ pc = "main"
            /\ ~dryrun
            /\ idx <= Len(found)
            /\ Dest(found[idx][2], found[idx][3]) \in unpackFailed)
           => (/\ downloaded' = downloaded
               /\ extracted' = extracted
               /\ files' = files
               /\ unpacked' = unpacked
               /\ dirs' = dirs) ]_vars

\* a later run obtained a candidate whose extraction had failed, and skipped it
C9_Witness ==
    /\ ~dryrun
    /\ Range(skipped) \cap unpackFailed # {}
    /\ downloaded = <<>>

\* no update-number pattern matches the file name of r
Unparseable(r) == ~MetaOf(r).ver.raised /\ MetaOf(r).upd.raised

\* r passes the version, update and platform tests of this run
Matches(r) ==
    LET a == SplitVersion(maya)
        v == MetaOf(r).ver
        u == MetaOf(r).upd
    IN  /\ ~v.raised
        /\ ~u.raised
        /\ VersionTest(a.maya, v.ver)
        /\ UpdateTest(a.update, u.num)
        /\ PlatformTest(platform_, r)

\* C10: when a link of the page has a file name no update-number pattern matches,
\* the run ends on the unhandled error whatever the filters are: nothing is
\* returned, printed, downloaded or extracted.
C10_UnparseableLinkAborts ==
    (pc # "start" /\ fetch = "ok" /\ \E i \in 1..Len(url_list) : Unparseable(url_list[i])) =>
        /\ pc = "exited"
        /\ crash = "parse"
        /\ exitcode = 1
        /\ found = <<>>
        /\ printed = <<>>
        /\ downloaded = <<>>
        /\ extracted = <<>>
        /\ dirs = dirs0
        /\ files = files0

\* the run ended on the error although another link of the page passes the filters
C10_Witness ==
    /\ crash = "parse"
    /\ \E i \in 1..Len(url_list) : Unparseable(url_list[i])
    /\ \E i \in 1..Len(url_list) : Matches(url_list[i])

\* the tabulated update numbers of the prefixes of version ver that name starts with
Tabulated(name, ver) ==
    {chaotic(<<ver>>)[k][2] :
        k \in {h \in 1..Len(chaotic(<<ver>>)) : startswith(name, chaotic(<<ver>>)[h][1])}}

\* the digits d of 1..9 for which name starts with Autodesk_Maya_<ver>_<d>_Update_DEVKIT
UpdateDigits(name, ver) ==
    {d \in 1..9 :
        startswith(name, <<"Autodesk_", "Maya", "_", ver, "_", IntStr(d), "_Update_DEVKIT">>)}

\* C6: parse_update_version returns the tabulated number of a file name that starts
\* with a prefix of the table of its version; otherwise 0 for the generic prefix and
\* d for the generic prefix of update d, d in 1..9; otherwise it raises.
C6_UpdateNumber ==
    (pc = "returned" /\ fn = "parse_update_version") =>
        IF Tabulated(arg.name, arg.ver) # {}
        THEN ~ret.raised /\ Tabulated(arg.name, arg.ver) = {ret.num}
        ELSE IF startswith(arg.name, <<"Autodesk_", "Maya", "_", arg.ver, "_DEVKIT">>)
        THEN ~ret.raised /\ ret.num = 0
        ELSE IF UpdateDigits(arg.name, arg.ver) # {}
        THEN ~ret.raised /\ UpdateDigits(arg.name, arg.ver) = {ret.num}
        ELSE ret.raised

\* the parser returned 9 for the generic name of update 9
C6_Witness ==
    /\ pc = "returned"
    /\ fn = "parse_update_version"
    /\ UpdateDigits(arg.name, arg.ver) = {9}
    /\ ret = [raised |-> FALSE, num |-> 9]

\* the host of a URL: what stands between the scheme and the first "/"
HostOf(url) ==
    SubSeq(url, 2, Min({i \in 2..(Len(url) + 1) : i = Len(url) + 1 \/ url[i] = "/"}) - 1)

\* the path of a URL: from the first "/" on
PathOf(url) ==
    SubSeq(url, Min({i \in 2..(Len(url) + 1) : i = Len(url) + 1 \/ url[i] = "/"}), Len(url))

Includes(s, part) ==
    \E i \in 1..(Len(s) - Len(part) + 1) : SubSeq(s, i, i + Len(part) - 1) = part

EndsWith(s, part) ==
    Len(part) <= Len(s) /\ SubSeq(s, Len(s) - Len(part) + 1, Len(s)) = part

\* what the Link Extractor requires of a URL
ArchiveLink(url) ==
    /\ url[1] = "https://"
    /\ Includes(HostOf(url), <<".", "amazonaws", ".", "com">>)
    /\ Includes(PathOf(url), <<"/", "Maya", "/", "devkit">>)
    /\ \E ext \in {Dmg, Zip, Tgz} : EndsWith(url, ext)

\* C7: parse_links returns the URL of a line only when the URL has the scheme https,
\* a host with the storage domain, a path with the product folder and one of the
\* extensions dmg, zip, tgz; and what it returns is exactly the URL of the link.
C7_LinkExtractor ==
    (pc = "returned" /\ fn = "parse_links") =>
        \A i \in 1..Len(ret) : ArchiveLink(UrlOf(arg)) /\ ret[i] = UrlOf(arg)

====
